---- MODULE Spec2Model ----
(***************************************************************************)
(* Model of the YouTube transcript viewer (src/app.py, src/script.py):     *)
(* the identifier extractor, the timestamped renderer, the paragraph       *)
(* formatter and the orchestrator get_transcript_data.                     *)
(*                                                                         *)
(* Text is modelled as sequences of one-character strings, so that         *)
(* stripping, splitting, joining and the regular expressions are computed  *)
(* as Python computes them.                                                *)
(***************************************************************************)
EXTENDS Integers, Sequences, FiniteSets, TLC

VARIABLES
    pc,                 \* position of the operation under way
    url,                \* the URL handed to extract_video_id / get_transcript_data
    video_id,           \* get_transcript_data: the extracted identifier (NoneVal: None)
    files,              \* the working directory: path -> content of the files on disk
    staged,             \* the paths the retrieval collaborator wrote in this invocation
    subtitle_file_path, \* get_transcript_data: the located caption file (NoneVal: None)
    info_dict,          \* what extract_info returned
    exc,                \* the exception in flight ("none": none)
    vtt_content,        \* the caption markup handed to the renderers
    tok,                \* the outcome of nltk.sent_tokenize in this invocation
    result,             \* the dict get_transcript_data returns / the renderers' outputs
    fmt,                \* format_transcript_into_paragraphs: mode and paragraph list
    ids,                \* the identifiers the two extract_video_id implementations return
    session_state,      \* st.session_state: transcript_data, last_url, video_id, word_cloud
    notice              \* what the button handler shows: "info", "warning" or "none"

vars ==
    <<pc, url, video_id, files, staged, subtitle_file_path, info_dict, exc, vtt_content,
      tok, result, fmt, ids, session_state, notice>>

\* Python's None where the program holds text or None: no text, since a text holds
\* single characters.
NoneVal == <<"None">>

\* None as the error of a result.
NoError == "None"

\* None as info_dict.
NoInfo == [returned |-> FALSE, automatic_captions |-> FALSE, subtitles |-> FALSE]

\* An extract_video_id not yet applied.
NotExtracted == <<"unset">>

NoIds == [app |-> NotExtracted, script |-> NotExtracted]

----------------------------------------------------------------------------
(* Bounds of the model *)

\* Lines of caption markup handed to the renderers.
MaxLines == 3

----------------------------------------------------------------------------
(* Python string operations on sequences of characters *)

\* The characters str.strip() removes.
Whitespace == {" ", "\n", "\t"}

Letters ==
    {"a", "b", "c", "d", "e", "f", "g", "h", "i", "j", "k", "l", "m", "n", "o", "p", "q",
     "r", "s", "t", "u", "v", "w", "x", "y", "z", "A", "B", "C", "D", "E", "F", "G", "H",
     "I", "J", "K", "L", "M", "N", "O", "P", "Q", "R", "S", "T", "U", "V", "W", "X", "Y",
     "Z"}

Min(a, b) == IF a < b THEN a ELSE b

Max(a, b) == IF a > b THEN a ELSE b

\* s[i:] with i counted from 1.
From(s, i) == SubSeq(s, i, Len(s))

RECURSIVE LStrip(_)
LStrip(s) ==
    IF s # <<>> /\ Head(s) \in Whitespace THEN LStrip(Tail(s)) ELSE s

RECURSIVE RStrip(_)
RStrip(s) ==
    IF s # <<>> /\ s[Len(s)] \in Whitespace THEN RStrip(SubSeq(s, 1, Len(s) - 1)) ELSE s

\* str.strip()
Strip(s) == RStrip(LStrip(s))

\* str.startswith(p)
StartsWith(s, p) == Len(s) >= Len(p) /\ SubSeq(s, 1, Len(p)) = p

\* p in s
Contains(s, p) == \E i \in 1..(Len(s) - Len(p) + 1) : SubSeq(s, i, i + Len(p) - 1) = p

\* The least index >= i of character c in s, 0 when there is none.
RECURSIVE IndexFrom(_, _, _)
IndexFrom(s, c, i) ==
    IF i > Len(s) THEN 0 ELSE IF s[i] = c THEN i ELSE IndexFrom(s, c, i + 1)

\* sep.join(parts), by halves
RECURSIVE Join(_, _)
Join(parts, sep) ==
    IF parts = <<>> THEN <<>>
    ELSE IF Len(parts) = 1 THEN parts[1]
    ELSE LET half == Len(parts) \div 2
         IN Join(SubSeq(parts, 1, half), sep) \o sep
                \o Join(SubSeq(parts, half + 1, Len(parts)), sep)

\* str.split(c), by halves: the pieces of s between the occurrences of character c.
RECURSIVE Split(_, _)
Split(s, c) ==
    IF s = <<>> THEN <<<<>>>>
    ELSE IF Len(s) = 1 THEN (IF s[1] = c THEN <<<<>>, <<>>>> ELSE <<s>>)
    ELSE LET half == Len(s) \div 2
             left == Split(SubSeq(s, 1, half), c)
             right == Split(SubSeq(s, half + 1, Len(s)), c)
         IN SubSeq(left, 1, Len(left) - 1) \o <<left[Len(left)] \o right[1]>> \o Tail(right)

\* str.splitlines() (the line boundary of the model's text is "\n"): a line break at
\* the end of the text opens no further line.
SplitLines(s) ==
    IF s = <<>> THEN <<>>
    ELSE LET pieces == Split(s, "\n")
         IN IF s[Len(s)] = "\n" THEN SubSeq(pieces, 1, Len(pieces) - 1) ELSE pieces

\* re.sub(open [^close]+ close, '', s): each leftmost match is an opening character,
\* one or more characters other than the closing one, and the closing character.
RECURSIVE ReSubDelimited(_, _, _)
ReSubDelimited(s, open, close) ==
    IF s = <<>> THEN <<>>
    ELSE IF Head(s) # open THEN <<Head(s)>> \o ReSubDelimited(Tail(s), open, close)
    ELSE LET j == IndexFrom(s, close, 2)
         IN IF j >= 3 THEN ReSubDelimited(From(s, j + 1), open, close)
            ELSE <<Head(s)>> \o ReSubDelimited(Tail(s), open, close)

\* The length of the longest prefix of s made of letters.
RECURSIVE LetterPrefix(_)
LetterPrefix(s) ==
    IF s # <<>> /\ Head(s) \in Letters THEN 1 + LetterPrefix(Tail(s)) ELSE 0

\* re.match(r'^[a-zA-Z]+:.+', s): letters, a colon, and at least one more character
\* (the model's lines hold no line break, which '.' would refuse).
MatchesLabel(s) ==
    LET k == LetterPrefix(s)
    IN k >= 1 /\ Len(s) >= k + 2 /\ s[k + 1] = ":" /\ s[k + 2] # "\n"

----------------------------------------------------------------------------
(* String literals of the source *)

Arrow ==
    <<"-", "-", ">">>

HdrWEBVTT ==
    <<"W", "E", "B", "V", "T", "T">>

HdrKind ==
    <<"K", "i", "n", "d", ":">>

HdrLanguage ==
    <<"L", "a", "n", "g", "u", "a", "g", "e", ":">>

MsgCouldNotExtract ==
    <<"C", "o", "u", "l", "d", " ", "n", "o", "t", " ", "e", "x", "t", "r", "a", "c", "t", " ",
      "t", "e", "x", "t", " ", "c", "o", "n", "t", "e", "n", "t", " ", "f", "o", "r", " ", "f",
      "o", "r", "m", "a", "t", "t", "i", "n", "g", ".">>

MsgPunktMissing ==
    <<"E", "r", "r", "o", "r", ":", " ", "N", "L", "T", "K", " ", "r", "e", "s", "o", "u", "r",
      "c", "e", " ", "'", "p", "u", "n", "k", "t", "'", "/", "'", "p", "u", "n", "k", "t", "_",
      "t", "a", "b", "'", " ", "n", "o", "t", " ", "f", "o", "u", "n", "d", ".", " ", "T", "r",
      "y", " ", "m", "a", "n", "u", "a", "l", " ", "d", "o", "w", "n", "l", "o", "a", "d", ".">>

MsgTokenizeError ==
    <<"E", "r", "r", "o", "r", " ", "d", "u", "r", "i", "n", "g", " ", "s", "e", "n", "t", "e",
      "n", "c", "e", " ", "t", "o", "k", "e", "n", "i", "z", "a", "t", "i", "o", "n", ":", " ">>

----------------------------------------------------------------------------
(* Lines of caption markup the model draws its inputs from *)

TimeRange1 ==
    <<"0", "0", ":", "0", "0", ":", "0", "1", ".", "0", "0", "0", " ", "-", "-", ">", " ", "0",
      "0", ":", "0", "0", ":", "0", "3", ".", "0", "0", "0">>

TimeRange2 ==
    <<"2", " ", "-", "-", ">", " ", "3">>

TaggedText ==
    <<"<", "c", ">", "H", "e", "l", "l", "o", "<", "/", "c", ">", " ", "w", "o", "r", "l", "d">>

PlainText ==
    <<"s", "o", " ", "i", "t", " ", "g", "o", "e", "s", ".">>

TagOnlyText ==
    <<"<", "c", ">", "<", "/", "c", ">">>

TagBlankText ==
    <<"<", "c", ">", " ", "<", "/", "c", ">">>

BraceText ==
    <<"{", "b", "}", "u", "p", " ">>

LabelText ==
    <<"B", "o", "b", ":", " ", "h", "i">>

HeaderLine ==
    <<"W", "E", "B", "V", "T", "T">>

KindLine ==
    <<"K", "i", "n", "d", ":", " ", "c", "a", "p", "t", "i", "o", "n", "s">>

BlankLine ==
    <<>>

----------------------------------------------------------------------------
(* The renderers' shared line handling *)

\* The header lines both renderers skip.
IsHeaderLine(line) ==
    StartsWith(line, HdrWEBVTT) \/ StartsWith(line, HdrKind) \/ StartsWith(line, HdrLanguage)

\* The two re.sub calls: angle-bracket tags, then curly-brace directives.
CleanLine(line) == ReSubDelimited(ReSubDelimited(line, "<", ">"), "{", "}")

----------------------------------------------------------------------------
(* parse_vtt_with_timestamps *)

\* What one text line adds to formatted_transcript: the cleaned line and a blank line.
CueTextLines(line) == <<CleanLine(line), <<>>>>

\* One iteration of the loop over enumerate(lines): i is the 1-based index of the
\* line at hand, state.ft is formatted_transcript, state.ts is current_timestamp.
ParseStep(state, i, lines) ==
    LET line == Strip(lines[i])
    IN IF IsHeaderLine(line) THEN state
       ELSE IF Contains(line, Arrow)
       THEN LET current_timestamp == <<"[">> \o line \o <<"]">>
            IN IF i + 1 <= Len(lines)
               THEN LET next_line == Strip(lines[i + 1])
                    IN IF next_line # <<>> /\ ~Contains(next_line, Arrow)
                       THEN [ft |-> Append(state.ft, current_timestamp),
                             ts |-> current_timestamp]
                       ELSE [state EXCEPT !.ts = <<>>]
               ELSE [state EXCEPT !.ts = current_timestamp]
       ELSE IF line # <<>> /\ state.ts # <<>>
       THEN [ft |-> state.ft \o CueTextLines(line), ts |-> <<>>]
       ELSE state

\* The iterations lo..hi in order, from state.  The range is halved to keep the
\* evaluation shallow; the test on the first half's result makes it computed before
\* the second half starts.
RECURSIVE ParseLoop(_, _, _, _)
ParseLoop(lines, lo, hi, state) ==
    IF lo > hi THEN state
    ELSE IF lo = hi THEN ParseStep(state, lo, lines)
    ELSE LET mid == (lo + hi) \div 2
             before == ParseLoop(lines, lo, mid, state)
         IN IF DOMAIN before = {} THEN before ELSE ParseLoop(lines, mid + 1, hi, before)

\* formatted_transcript at the end of the loop.
FormattedTranscript(content) ==
    LET lines == SplitLines(Strip(content))
    IN ParseLoop(lines, 1, Len(lines), [ft |-> <<>>, ts |-> <<>>]).ft

\* The rendering without the final strip().
parse_vtt_untrimmed(content) == Join(FormattedTranscript(content), <<"\n">>)

parse_vtt_with_timestamps(content) == Strip(Join(FormattedTranscript(content), <<"\n">>))

----------------------------------------------------------------------------
(* nltk.sent_tokenize: a collaborator outside the repository.  An outcome is    *)
(* a failure, or the set of spaces of the text, counted from the left, at which *)
(* it ends a sentence.                                                          *)

TokOk == "ok"

TokResourceMissing == "resource_missing"

TokInternalError == "internal_error"

\* The text cut at its spaces whose ordinal, counted from the left, is in t.breaks:
\* piece n runs from the word after the (n-1)-th chosen space to the word before the
\* n-th.
CutAtBreaks(text, t) ==
    LET words == Split(text, " ")
        cuts == t.breaks \cap (1..(Len(words) - 1))
        nth(n) == CHOOSE j \in cuts : Cardinality({c \in cuts : c < j}) = n - 1
        first(n) == IF n = 1 THEN 1 ELSE nth(n - 1) + 1
        last(n) == IF n = Cardinality(cuts) + 1 THEN Len(words) ELSE nth(n)
    IN [n \in 1..(Cardinality(cuts) + 1) |-> Join(SubSeq(words, first(n), last(n)), <<" ">>)]

\* The sentences returned: stripped, none empty, in the order of the text.
sent_tokenize(text, t) ==
    LET cut == CutAtBreaks(text, t)
        kept == SelectSeq(cut, LAMBDA s : Strip(s) # <<>>)
    IN [k \in 1..Len(kept) |-> Strip(kept[k])]

----------------
(* format_transcript_into_paragraphs *)

sentences_per_paragraph == 5

lines_per_fallback_paragraph == 8

\* One iteration of the loop collecting text_segments.
CollectStep(text_segments, i, lines) ==
    LET line == Strip(lines[i])
    IN IF IsHeaderLine(line) \/ Contains(line, Arrow) \/ line = <<>> THEN text_segments
       ELSE LET cleaned_line == CleanLine(line)
            IN IF cleaned_line # <<>> /\ ~MatchesLabel(cleaned_line)
               THEN Append(text_segments, Strip(cleaned_line))
               ELSE text_segments

RECURSIVE CollectLoop(_, _, _, _)
CollectLoop(lines, lo, hi, text_segments) ==
    IF lo > hi THEN text_segments
    ELSE IF lo = hi THEN CollectStep(text_segments, lo, lines)
    ELSE LET mid == (lo + hi) \div 2
             before == CollectLoop(lines, lo, mid, text_segments)
         IN IF Len(before) < 0 THEN before ELSE CollectLoop(lines, mid + 1, hi, before)

TextSegments(content) ==
    LET lines == SplitLines(Strip(content))
    IN CollectLoop(lines, 1, Len(lines), <<>>)

MIN_SENTENCE_THRESHOLD(text_segments) == Max(5, Len(text_segments) \div 10)

\* The test with >= for >.
UseSentencesFromThreshold(sentences, text_segments) ==
    Len(sentences) >= MIN_SENTENCE_THRESHOLD(text_segments)

\* The test choosing sentence grouping over the fallback.
UseSentences(sentences, text_segments) ==
    Len(sentences) > MIN_SENTENCE_THRESHOLD(text_segments)

\* The test without its last-sentence disjunct.
SentenceParagraphFull(current_paragraph, i, sentences) ==
    Len(current_paragraph) >= sentences_per_paragraph

\* The test closing a paragraph in the sentence loop (i is 1-based).
SentenceParagraphEnds(current_paragraph, i, sentences) ==
    Len(current_paragraph) >= sentences_per_paragraph \/ i = Len(sentences)

\* The test closing a paragraph in the fallback loop (i is 1-based).
FallbackParagraphEnds(current_paragraph_lines, i, text_segments) ==
    Len(current_paragraph_lines) >= lines_per_fallback_paragraph \/ i = Len(text_segments)

\* One iteration of the sentence loop: state.paragraphs, state.current_paragraph.
SentenceStep(state, i, sentences) ==
    LET cur == Append(state.current_paragraph, sentences[i])
    IN IF SentenceParagraphEnds(cur, i, sentences)
       THEN [paragraphs |-> Append(state.paragraphs, Join(cur, <<" ">>)),
             current_paragraph |-> <<>>]
       ELSE [state EXCEPT !.current_paragraph = cur]

RECURSIVE SentenceLoop(_, _, _, _)
SentenceLoop(sentences, lo, hi, state) ==
    IF lo > hi THEN state
    ELSE IF lo = hi THEN SentenceStep(state, lo, sentences)
    ELSE LET mid == (lo + hi) \div 2
             before == SentenceLoop(sentences, lo, mid, state)
         IN IF DOMAIN before = {} THEN before
            ELSE SentenceLoop(sentences, mid + 1, hi, before)

\* One iteration of the fallback loop: state.paragraphs, state.current_paragraph (the
\* source's current_paragraph_lines).
FallbackStep(state, i, text_segments) ==
    LET cur == Append(state.current_paragraph, text_segments[i])
    IN IF FallbackParagraphEnds(cur, i, text_segments)
       THEN [paragraphs |-> Append(state.paragraphs, Join(cur, <<" ">>)),
             current_paragraph |-> <<>>]
       ELSE [state EXCEPT !.current_paragraph = cur]

RECURSIVE FallbackLoop(_, _, _, _)
FallbackLoop(text_segments, lo, hi, state) ==
    IF lo > hi THEN state
    ELSE IF lo = hi THEN FallbackStep(state, lo, text_segments)
    ELSE LET mid == (lo + hi) \div 2
             before == FallbackLoop(text_segments, lo, mid, state)
         IN IF DOMAIN before = {} THEN before
            ELSE FallbackLoop(text_segments, mid + 1, hi, before)

NoParagraphs == [paragraphs |-> <<>>, current_paragraph |-> <<>>]

\* The text of the exception of an internal tokenizer failure.
TokenizerFault == <<"b", "o", "o", "m">>

\* The function's run: mode is the branch taken, paragraphs the list joined into the
\* returned string out.
FormatRun(content, t) ==
    LET text_segments == TextSegments(content)
        full_text == Join(text_segments, <<" ">>)
        sentences == IF t.kind = TokOk THEN sent_tokenize(full_text, t) ELSE <<>>
        base == [text_segments |-> text_segments, sentences |-> sentences,
                 paragraphs |-> <<>>]
    IN IF text_segments = <<>>
       THEN [base EXCEPT !.sentences = <<>>] @@ [mode |-> "no_text", out |-> MsgCouldNotExtract]
       ELSE IF t.kind = TokResourceMissing
       THEN base @@ [mode |-> "tokenizer_error", out |-> MsgPunktMissing]
       ELSE IF t.kind = TokInternalError
       THEN base @@ [mode |-> "tokenizer_error", out |-> MsgTokenizeError \o TokenizerFault]
       ELSE IF UseSentences(sentences, text_segments)
       THEN LET paragraphs ==
                SentenceLoop(sentences, 1, Len(sentences), NoParagraphs).paragraphs
            IN [base EXCEPT !.paragraphs = paragraphs]
               @@ [mode |-> "sentences", out |-> Strip(Join(paragraphs, <<"\n", "\n">>))]
       ELSE LET paragraphs ==
                FallbackLoop(text_segments, 1, Len(text_segments), NoParagraphs).paragraphs
            IN [base EXCEPT !.paragraphs = paragraphs]
               @@ [mode |-> "fallback", out |-> Strip(Join(paragraphs, <<"\n", "\n">>))]

format_transcript_into_paragraphs(content, t) == FormatRun(content, t).out

----------------------------------------------------------------------------
(* urllib.parse: urlparse and parse_qs, the library calls of extract_video_id *)

LowerCase ==
    <<"a", "b", "c", "d", "e", "f", "g", "h", "i", "j", "k", "l", "m", "n", "o", "p", "q",
      "r", "s", "t", "u", "v", "w", "x", "y", "z">>

UpperCase ==
    <<"A", "B", "C", "D", "E", "F", "G", "H", "I", "J", "K", "L", "M", "N", "O", "P", "Q",
      "R", "S", "T", "U", "V", "W", "X", "Y", "Z">>

\* str.lower()
Lower(s) ==
    [k \in 1..Len(s) |->
        IF \E n \in 1..26 : UpperCase[n] = s[k]
        THEN LowerCase[CHOOSE n \in 1..26 : UpperCase[n] = s[k]]
        ELSE s[k]]

\* The characters of a URL scheme.
SchemeChars ==
    Letters \cup {"0", "1", "2", "3", "4", "5", "6", "7", "8", "9", "+", "-", "."}

\* s.find(c) counted from 1: 0 when c is not in s.
Find(s, c) == IndexFrom(s, c, 1)

\* s.partition(c)[0] and s.partition(c)[2]
BeforeFirst(s, c) == IF Find(s, c) = 0 THEN s ELSE SubSeq(s, 1, Find(s, c) - 1)

AfterFirst(s, c) == IF Find(s, c) = 0 THEN <<>> ELSE From(s, Find(s, c) + 1)

\* s.rpartition(c)[2]
AfterLast(s, c) ==
    LET at == {j \in 1..Len(s) : s[j] = c}
    IN IF at = {} THEN s ELSE From(s, (CHOOSE j \in at : \A k \in at : k <= j) + 1)

\* The text with the characters in drop removed.
Without(s, drop) == SelectSeq(s, LAMBDA c : c \notin drop)

\* urlsplit's scheme: the text before the first colon when it starts with a letter and
\* holds scheme characters only.
HasScheme(u) ==
    /\ Find(u, ":") > 1
    /\ u[1] \in Letters
    /\ \A k \in 1..(Find(u, ":") - 1) : u[k] \in SchemeChars

\* The end of the network location of text starting with "//": the first of "/", "?"
\* and "#" from position 3 on, or the end of the text.
NetlocEnd(rest) ==
    LET ends == {j \in 3..Len(rest) : rest[j] \in {"/", "?", "#"}}
    IN IF ends = {} THEN Len(rest) + 1 ELSE CHOOSE j \in ends : \A k \in ends : j <= k

\* A bracketed host must be an IP literal: urlsplit raises ValueError for unbalanced
\* brackets and for a bracketed name that is no address (no name of the model is one).
NetlocRaises(netloc) == "[" \in {netloc[k] : k \in 1..Len(netloc)} \/ "]" \in {netloc[k] : k \in 1..Len(netloc)}

\* urlparse(url): ok is FALSE when it raises ValueError.
urlparse(u0) ==
    LET u1 == Without(LStrip(u0), {"\t", "\n"})
        scheme == IF HasScheme(u1) THEN Lower(BeforeFirst(u1, ":")) ELSE <<>>
        u2 == IF HasScheme(u1) THEN AfterFirst(u1, ":") ELSE u1
        has_netloc == StartsWith(u2, <<"/", "/">>)
        netloc == IF has_netloc THEN SubSeq(u2, 3, NetlocEnd(u2) - 1) ELSE <<>>
        u3 == IF has_netloc THEN From(u2, NetlocEnd(u2)) ELSE u2
        u4 == BeforeFirst(u3, "#")
        query == AfterFirst(u4, "?")
        u5 == BeforeFirst(u4, "?")
        \* _splitparams: the parameters of the last path segment
        last_segment == AfterLast(u5, "/")
        path == SubSeq(u5, 1, Len(u5) - Len(last_segment)) \o BeforeFirst(last_segment, ";")
        hostinfo == AfterLast(netloc, "@")
        hostname == Lower(BeforeFirst(hostinfo, ":"))
    IN [ok |-> ~NetlocRaises(netloc), scheme |-> scheme, netloc |-> netloc, path |-> path,
        query |-> query,
        hostname |-> IF hostname = <<>> THEN NoneVal ELSE hostname]

\* parse_qsl's name or value: "+" read as a space (the model's URLs hold no percent
\* escapes, which unquote would decode).
Unplus(s) == [k \in 1..Len(s) |-> IF s[k] = "+" THEN " " ELSE s[k]]

\* parse_qs(query).get(name, [None])[0]: the first non-blank value of the fields
\* called name, NoneVal when there is none.
FirstQueryValue(query, name) ==
    LET fields == IF query = <<>> THEN <<>> ELSE Split(query, "&")
        kept == SelectSeq(fields,
                          LAMBDA f : /\ Find(f, "=") > 0
                                     /\ AfterFirst(f, "=") # <<>>
                                     /\ Unplus(BeforeFirst(f, "=")) = name)
    IN IF kept = <<>> THEN NoneVal ELSE Unplus(AfterFirst(kept[1], "="))

----------------------------------------------------------------------------
(* extract_video_id *)

HostShort ==
    <<"y", "o", "u", "t", "u", ".", "b", "e">>

HostWww ==
    <<"w", "w", "w", ".", "y", "o", "u", "t", "u", "b", "e", ".", "c", "o", "m">>

HostBare ==
    <<"y", "o", "u", "t", "u", "b", "e", ".", "c", "o", "m">>

HostMobile ==
    <<"m", ".", "y", "o", "u", "t", "u", "b", "e", ".", "c", "o", "m">>

PathWatch ==
    <<"/", "w", "a", "t", "c", "h">>

PrefixEmbed ==
    <<"/", "e", "m", "b", "e", "d", "/">>

PrefixV ==
    <<"/", "v", "/">>

\* parsed_url.path.split('/')[2]
ThirdSegment(path) == Split(path, "/")[3]

\* src/app.py
extract_video_id(u) ==
    IF u = NoneVal THEN NoneVal
    ELSE LET parsed_url == urlparse(u)
         IN IF ~parsed_url.ok THEN NoneVal
            ELSE IF parsed_url.hostname \in {HostWww, HostBare, HostMobile}
            THEN IF parsed_url.path = PathWatch
                 THEN FirstQueryValue(parsed_url.query, <<"v">>)
                 ELSE IF StartsWith(parsed_url.path, PrefixEmbed)
                         \/ StartsWith(parsed_url.path, PrefixV)
                 THEN ThirdSegment(parsed_url.path)
                 ELSE NoneVal
            ELSE IF parsed_url.hostname = HostShort THEN From(parsed_url.path, 2)
            ELSE NoneVal

\* src/script.py (urlparse(None) parses as empty bytes, whose hostname is None)
script_extract_video_id(u) ==
    IF u = NoneVal THEN NoneVal
    ELSE LET parsed_url == urlparse(u)
         IN IF ~parsed_url.ok THEN NoneVal
            ELSE IF parsed_url.hostname = HostShort THEN From(parsed_url.path, 2)
            ELSE IF parsed_url.hostname \in {HostWww, HostBare}
            THEN IF parsed_url.path = PathWatch
                 THEN FirstQueryValue(parsed_url.query, <<"v">>)
                 ELSE IF StartsWith(parsed_url.path, PrefixEmbed)
                 THEN ThirdSegment(parsed_url.path)
                 ELSE IF StartsWith(parsed_url.path, PrefixV)
                 THEN ThirdSegment(parsed_url.path)
                 ELSE NoneVal
            ELSE NoneVal

----------------------------------------------------------------------------
(* get_transcript_data *)

Language ==
    <<"e", "n">>

TranscriptInfix ==
    <<"_", "t", "r", "a", "n", "s", "c", "r", "i", "p", "t", "_">>

VttSuffix ==
    <<".", "v", "t", "t">>

\* base_filename
BaseFilename(id) == id \o TranscriptInfix \o Language

\* possible_paths, in the order they are tried.
PossiblePaths(id) ==
    <<BaseFilename(id) \o <<".">> \o Language \o VttSuffix, BaseFilename(id) \o VttSuffix>>

\* The working directory with no file.
NoFiles == [p \in {} |-> <<>>]

\* The files with path p written / removed.
WriteFile(fs, p, content) == [q \in DOMAIN fs \cup {p} |-> IF q = p THEN content ELSE fs[q]]

RemoveFile(fs, p) == [q \in DOMAIN fs \ {p} |-> fs[q]]

\* Python's truth of a text or None.
Truthy(v) == v # NoneVal /\ v # <<>>

ErrNoVideoId == "Error: Could not extract a valid YouTube video ID from the URL."

ErrNoCaptionsAvailable == "Error: No subtitles/captions available (lang: 'en')."

ErrFileNotCreated == "Error: Subtitle file not created by yt-dlp."

ErrEmptyContent == "Error: Parsing subtitle file resulted in empty content."

ErrNoCaptionsFound == "Error: No subtitles/captions found (lang: 'en')."

ErrVideoUnavailable == "Error: Video unavailable."

ErrNoMetadata == "Error: Could not download video metadata."

ErrDownload == "Error during download/extraction (yt-dlp)."

ErrUnexpected == "An unexpected error occurred during processing: <e>"

\* The messages of yt_dlp.utils.DownloadError the handler tells apart.
DownloadErrors == {"no_captions_found", "video_unavailable", "unable_to_download", "other"}

\* An except clause that tells no DownloadError from another.
DownloadErrorGeneric(kind) == ErrDownload

\* The except clause for DownloadError: the error of the result by the message.
DownloadErrorMessage(kind) ==
    IF kind = "no_captions_found" THEN ErrNoCaptionsFound
    ELSE IF kind = "video_unavailable" THEN ErrVideoUnavailable
    ELSE IF kind = "unable_to_download" THEN ErrNoMetadata
    ELSE ErrDownload

\* The first of possible_paths that exists, NoneVal when none does.
LocatedPath(fs, id) ==
    IF PossiblePaths(id)[1] \in DOMAIN fs THEN PossiblePaths(id)[1]
    ELSE IF PossiblePaths(id)[2] \in DOMAIN fs THEN PossiblePaths(id)[2]
    ELSE NoneVal

\* Lines 173-175: the two renderings and the empty-content test.
Renderings(content, t) ==
    LET timestamped == parse_vtt_with_timestamps(content)
        paragraph == format_transcript_into_paragraphs(content, t)
    IN [timestamped |-> timestamped, paragraph |-> paragraph,
        error |-> IF timestamped = <<>> /\ paragraph = <<>> THEN ErrEmptyContent ELSE NoError]

----------------------------------------------------------------------------
(* Rendering caption markup: the two renderers applied to markup drawn from the *)
(* line pool.                                                                   *)

LinePool ==
    {TimeRange1, TimeRange2, TaggedText, PlainText, TagOnlyText, TagBlankText, BraceText,
     LabelText, HeaderLine, KindLine, BlankLine}

\* Every sequence of at most n lines of the pool.
RECURSIVE LineSeqs(_)
LineSeqs(n) ==
    IF n = 0 THEN {<<>>}
    ELSE LET shorter == LineSeqs(n - 1)
         IN shorter \cup {Append(s, l) : s \in {x \in shorter : Len(x) = n - 1}, l \in LinePool}

\* The markup of a sequence of lines: each line ended by a line break.
Markup(lines) == Join([k \in 1..Len(lines) |-> lines[k] \o <<"\n">>], <<>>)

NoResult == [timestamped |-> <<>>, paragraph |-> <<>>, error |-> NoError]

\* st.session_state as the script initialises it.
NoSession == [transcript_data |-> NoResult, last_url |-> <<>>, video_id |-> <<>>,
              word_cloud |-> NoneVal]

NoFmt == [text_segments |-> <<>>, sentences |-> <<>>, paragraphs |-> <<>>, mode |-> "none",
          out |-> <<>>]

\* Sentence breaks the tokenizer may choose among in the rendering specification.
MaxBreaks == 1

RenderTokOutcomes ==
    [kind : {TokOk}, breaks : SUBSET (1..MaxBreaks)]
        \cup [kind : {TokResourceMissing, TokInternalError}, breaks : {{}}]

Idle ==
    /\ url = <<>>
    /\ video_id = NoneVal
    /\ files = NoFiles
    /\ staged = {}
    /\ subtitle_file_path = NoneVal
    /\ info_dict = NoInfo
    /\ exc = "none"
    /\ ids = NoIds
    /\ session_state = NoSession
    /\ notice = "none"

RenderInit ==
    /\ Idle
    /\ pc = "markup"
    /\ vtt_content \in {Markup(ls) : ls \in LineSeqs(MaxLines)}
    /\ tok \in RenderTokOutcomes
    /\ result = NoResult
    /\ fmt = NoFmt

\* Lines 173-174 of get_transcript_data on their own: both renderers on the markup.
Render ==
    /\ pc = "markup"
    /\ pc' = "rendered"
    /\ LET run == FormatRun(vtt_content, tok)
       IN /\ result' = [result EXCEPT !.timestamped = parse_vtt_with_timestamps(vtt_content),
                                      !.paragraph = run.out]
          /\ fmt' = run
    /\ UNCHANGED <<url, video_id, files, staged, subtitle_file_path, info_dict, exc,
                   vtt_content, tok, ids,
                   session_state, notice>>

RenderNext == Render

RenderSpec == RenderInit /\ [][RenderNext]_vars

----------------------------------------------------------------------------
(* Properties of the renderers *)

\* The lines of the markup, as both renderers split it.
MarkupLines == SplitLines(Strip(vtt_content))

\* A line of cue text: not blank, no time range, no header.
IsTextLine(line) ==
    Strip(line) # <<>> /\ ~Contains(line, Arrow) /\ ~IsHeaderLine(Strip(line))

\* The marker of a time-range line.
Marker(line) == <<"[">> \o Strip(line) \o <<"]">>

\* The lines of the timestamped rendering.
RenderedLines == SplitLines(result.timestamped)

IsMarkerLine(line) == line # <<>> /\ Head(line) = "[" /\ Contains(line, Arrow)

\* C4: in the timestamped rendering every marker line is immediately followed by a
\* non-empty text line: no bare marker, no marker followed by a blank line or by
\* another marker.
C4_MarkerHasText ==
    pc = "rendered" =>
        \A k \in 1..Len(RenderedLines) :
            IsMarkerLine(RenderedLines[k]) =>
                /\ k < Len(RenderedLines)
                /\ Strip(RenderedLines[k + 1]) # <<>>
                /\ ~IsMarkerLine(RenderedLines[k + 1])

\* The markup is one cue: a time-range line and then only text lines.
IsOneCue(lines) ==
    /\ Len(lines) >= 2
    /\ Contains(lines[1], Arrow)
    /\ \A k \in 2..Len(lines) : IsTextLine(lines[k])

\* The rendering of one cue with all of its text lines, trimmed as the result is.
OneCueRendering(lines) ==
    Strip(Join(<<Marker(lines[1])>>
                   \o [k \in 1..(Len(lines) - 1) |-> CleanLine(Strip(lines[k + 1]))]
                   \o <<<<>>>>,
               <<"\n">>))

\* C5: a cue of k >= 1 consecutive text lines is rendered as its marker, all k
\* stripped text lines in source order, and one blank line: no text line is dropped.
C5_AllCueLinesEmitted ==
    (pc = "rendered" /\ IsOneCue(MarkupLines)) =>
        result.timestamped = OneCueRendering(MarkupLines)

\* The markup is a time-range line, one text line and the terminating blank line.
IsSingleCueMarkup ==
    \E r \in LinePool, t \in LinePool :
        /\ Contains(r, Arrow)
        /\ IsTextLine(t)
        /\ vtt_content = Markup(<<r, t, BlankLine>>)

\* C6 as claimed: the rendering of a single cue R, T, blank line is
\* "[R]" newline strip_tags(T) newline, the trailing newline included.
C6_TrailingNewline ==
    (pc = "rendered" /\ IsSingleCueMarkup) =>
        result.timestamped =
            Marker(MarkupLines[1]) \o <<"\n">> \o CleanLine(Strip(MarkupLines[2])) \o <<"\n">>

HelloWorldRendering ==
    <<"[", "0", "0", ":", "0", "0", ":", "0", "1", ".", "0", "0", "0", " ", "-", "-", ">", " ",
      "0", "0", ":", "0", "0", ":", "0", "3", ".", "0", "0", "0", "]", "\n", "H", "e", "l",
      "l", "o", " ", "w", "o", "r", "l", "d">>

\* C6 as amended: the rendering of a single cue R, T, blank line is
\* "[R]" newline strip_tags(T) with the whitespace at both ends of the whole string
\* trimmed, so it never ends in a newline; the example renders as
\* "[00:00:01.000 --> 00:00:03.000]" newline "Hello world".
C6_TrimmedRendering ==
    (pc = "rendered" /\ IsSingleCueMarkup) =>
        /\ result.timestamped =
               Strip(Marker(MarkupLines[1]) \o <<"\n">> \o CleanLine(Strip(MarkupLines[2])))
        /\ result.timestamped[Len(result.timestamped)] # "\n"
        /\ vtt_content = Markup(<<TimeRange1, TaggedText, BlankLine>>) =>
               result.timestamped = HelloWorldRendering

C6_Witness ==
    /\ pc = "rendered"
    /\ vtt_content = Markup(<<TimeRange1, TaggedText, BlankLine>>)
    /\ result.timestamped = HelloWorldRendering

\* The timestamped rendering holds a line of cue text.
RenderedHasCueText ==
    \E k \in 1..Len(RenderedLines) :
        ~IsMarkerLine(RenderedLines[k]) /\ Strip(RenderedLines[k]) # <<>>

\* C9: whenever the timestamped rendering holds a cue with non-empty text and the
\* tokenizer does not fail, the paragraph formatter returns non-empty transcript
\* text: neither the empty string nor the nothing-extracted message.
C9_ParagraphNonEmpty ==
    (pc = "rendered" /\ tok.kind = TokOk /\ RenderedHasCueText) =>
        result.paragraph \notin {<<>>, MsgCouldNotExtract}

----------------------------------------------------------------------------
(* Formatting paragraphs: format_transcript_into_paragraphs applied to markup of *)
(* n numbered two-word text lines, the tokenizer ending a sentence at each of    *)
(* the first k spaces of the text.                                               *)

\* Text lines of the markup handed to the formatter.
MaxSegments == 150

\* Spaces at which the tokenizer may end a sentence.
MaxSentenceBreaks == 16

DigitChars == <<"0", "1", "2", "3", "4", "5", "6", "7", "8", "9">>

RECURSIVE Digits(_)
Digits(n) ==
    IF n < 10 THEN <<DigitChars[n + 1]>> ELSE Append(Digits(n \div 10), DigitChars[(n % 10) + 1])

\* The i-th text line: two words.
SegmentLine(i) == <<"a">> \o Digits(i) \o <<" ", "b">> \o Digits(i)

FmtTokOutcomes ==
    {[kind |-> TokOk, breaks |-> 1..k] : k \in 0..MaxSentenceBreaks}
        \cup [kind : {TokResourceMissing, TokInternalError}, breaks : {{}}]

FmtInit ==
    /\ Idle
    /\ pc = "segments"
    /\ vtt_content \in {Markup([i \in 1..n |-> SegmentLine(i)]) : n \in 0..MaxSegments}
    /\ tok \in FmtTokOutcomes
    /\ result = NoResult
    /\ fmt = NoFmt

\* Line 174 of get_transcript_data on its own.
Format ==
    /\ pc = "segments"
    /\ pc' = "formatted"
    /\ LET run == FormatRun(vtt_content, tok)
       IN /\ fmt' = run
          /\ result' = [result EXCEPT !.paragraph = run.out]
    /\ UNCHANGED <<url, video_id, files, staged, subtitle_file_path, info_dict, exc,
                   vtt_content, tok, ids,
                   session_state, notice>>

FmtNext == Format

FmtSpec == FmtInit /\ [][FmtNext]_vars

\* ceil(n / size)
CeilDiv(n, size) == (n + size - 1) \div size

\* items cut into consecutive groups of size, the last one possibly shorter, each
\* joined with single spaces.
Chunked(items, size) ==
    [g \in 1..CeilDiv(Len(items), size) |->
        Join(SubSeq(items, size * (g - 1) + 1, Min(size * g, Len(items))), <<" ">>)]

\* C7: with N >= 1 segments and S <= max(5, N div 10) sentences the output is the
\* segment sequence, not the sentences, in consecutive groups of 8 (the last one
\* possibly shorter, none empty): ceil(N/8) paragraphs, which in order hold every
\* segment of the markup once.
C7_FallbackGroups ==
    (/\ pc = "formatted"
     /\ tok.kind = TokOk
     /\ Len(MarkupLines) >= 1
     /\ Len(fmt.sentences) <= Max(5, Len(MarkupLines) \div 10)) =>
        /\ fmt.mode = "fallback"
        /\ fmt.text_segments = MarkupLines
        /\ Len(fmt.paragraphs) = CeilDiv(Len(MarkupLines), 8)
        /\ fmt.paragraphs = Chunked(MarkupLines, 8)
        /\ \A g \in 1..Len(fmt.paragraphs) : fmt.paragraphs[g] # <<>>
        /\ Join(fmt.paragraphs, <<" ">>) = Join(MarkupLines, <<" ">>)
        /\ result.paragraph = Join(fmt.paragraphs, <<"\n", "\n">>)

\* C7's case of 150 segments and exactly 15 sentences, the threshold: 19 paragraphs.
C7_Witness ==
    /\ pc = "formatted"
    /\ tok.kind = TokOk
    /\ Len(fmt.text_segments) = 150
    /\ Len(fmt.sentences) = 15
    /\ fmt.mode = "fallback"
    /\ Len(fmt.paragraphs) = 19

\* C8: with S > max(5, N div 10) sentences the output is the tokenizer's sentences
\* in consecutive groups of exactly 5, the last one of 1 to 5, each joined with
\* single spaces: ceil(S/5) paragraphs holding every sentence once, in order.
C8_SentenceGroups ==
    (/\ pc = "formatted"
     /\ tok.kind = TokOk
     /\ Len(fmt.sentences) > Max(5, Len(MarkupLines) \div 10)) =>
        /\ fmt.mode = "sentences"
        /\ fmt.sentences = sent_tokenize(Join(MarkupLines, <<" ">>), tok)
        /\ Len(fmt.paragraphs) = CeilDiv(Len(fmt.sentences), 5)
        /\ fmt.paragraphs = Chunked(fmt.sentences, 5)
        /\ Join(fmt.paragraphs, <<" ">>) = Join(fmt.sentences, <<" ">>)
        /\ result.paragraph = Join(fmt.paragraphs, <<"\n", "\n">>)

\* C8's case with a last group shorter than 5 after two full ones.
C8_Witness ==
    /\ pc = "formatted"
    /\ tok.kind = TokOk
    /\ fmt.mode = "sentences"
    /\ Len(fmt.sentences) = 12
    /\ Len(fmt.paragraphs) = 3

----------------------------------------------------------------------------
(* Extracting identifiers: both implementations applied to URLs put together *)
(* from a scheme, a host, a path and a query, and to strings that are no URL. *)

UrlSchemes ==
    {<<"h", "t", "t", "p", "s", ":", "/", "/">>,
     <<"h", "t", "t", "p", ":", "/", "/">>,
     <<>>}

UrlHosts ==
    {<<"y", "o", "u", "t", "u", ".", "b", "e">>,
     <<"w", "w", "w", ".", "y", "o", "u", "t", "u", "b", "e", ".", "c", "o", "m">>,
     <<"y", "o", "u", "t", "u", "b", "e", ".", "c", "o", "m">>,
     <<"m", ".", "y", "o", "u", "t", "u", "b", "e", ".", "c", "o", "m">>,
     <<"W", "W", "W", ".", "Y", "o", "u", "T", "u", "b", "e", ".", "c", "o", "m">>,
     <<"v", "i", "m", "e", "o", ".", "c", "o", "m">>,
     <<"u", "@", "y", "o", "u", "t", "u", ".", "b", "e", ":", "4", "4", "3">>,
     <<"[", "y", "o", "u", "t", "u", ".", "b", "e">>}

UrlPaths ==
    {<<>>,
     <<"/">>,
     <<"/", "w", "a", "t", "c", "h">>,
     <<"/", "w", "a", "t", "c", "h", "/">>,
     <<"/", "e", "m", "b", "e", "d", "/", "a", "b", "c">>,
     <<"/", "v", "/", "a", "b", "c">>,
     <<"/", "e", "m", "b", "e", "d", "/">>,
     <<"/", "e", "m", "b", "e", "d", "/", "a", "b", "c", "/", "x">>,
     <<"/", "p", "l", "a", "y", "l", "i", "s", "t">>,
     <<"/", "d", "Q", "w", "4">>}

UrlQueries ==
    {<<>>,
     <<"?", "v", "=", "a", "b", "c">>,
     <<"?", "v", "=", "a", "&", "v", "=", "b">>,
     <<"?", "t", "=", "1", "&", "v", "=", "a", "+", "b">>,
     <<"?", "v", "=">>,
     <<"?", "l", "i", "s", "t", "=", "x", "#", "v", "=", "a", "b", "c">>}

NotUrls ==
    {<<>>,
     <<"n", "o", "t", " ", "a", " ", "u", "r", "l">>,
     <<" ", "h", "t", "t", "p", "s", ":", "/", "/", "y", "o", "u", "t", "u", ".", "b", "e", "/", "a", "b", "c">>,
     <<"y", "o", "u", "t", "u", "b", "e">>,
     <<":", "/", "/">>,
     <<"w", "a", "t", "c", "h", "?", "v", "=", "a", "b", "c">>}

\* The inputs: URLs, strings that are no URL, and None.
UrlInputs ==
    {s \o h \o p \o q : s \in UrlSchemes, h \in UrlHosts, p \in UrlPaths, q \in UrlQueries}
        \cup NotUrls \cup {NoneVal}

ExtractInit ==
    /\ pc = "url"
    /\ url \in UrlInputs
    /\ ids = NoIds
    /\ session_state = NoSession
    /\ notice = "none"
    /\ video_id = NoneVal
    /\ files = NoFiles
    /\ staged = {}
    /\ subtitle_file_path = NoneVal
    /\ info_dict = NoInfo
    /\ exc = "none"
    /\ vtt_content = <<>>
    /\ tok = [kind |-> TokOk, breaks |-> {}]
    /\ result = NoResult
    /\ fmt = NoFmt

\* extract_video_id of src/app.py on the URL.
ExtractApp ==
    /\ pc = "url"
    /\ ids.app = NotExtracted
    /\ ids' = [ids EXCEPT !.app = extract_video_id(url)]
    /\ UNCHANGED <<pc, url, video_id, files, staged, subtitle_file_path, info_dict, exc,
                   vtt_content, tok, result, fmt,
                   session_state, notice>>

\* extract_video_id of src/script.py on the URL.
ExtractScript ==
    /\ pc = "url"
    /\ ids.script = NotExtracted
    /\ ids' = [ids EXCEPT !.script = script_extract_video_id(url)]
    /\ UNCHANGED <<pc, url, video_id, files, staged, subtitle_file_path, info_dict, exc,
                   vtt_content, tok, result, fmt,
                   session_state, notice>>

ExtractNext == ExtractApp \/ ExtractScript

ExtractSpec == ExtractInit /\ [][ExtractNext]_vars

\* The identifier C10 states for a URL, by the host and the path urlparse finds.
ClaimedIdentifier(u) ==
    IF u = NoneVal \/ ~urlparse(u).ok THEN NoneVal
    ELSE LET host == urlparse(u).hostname
             path == urlparse(u).path
         IN IF host = HostShort THEN From(path, 2)
            ELSE IF host \in {HostWww, HostBare, HostMobile} /\ path = PathWatch
            THEN FirstQueryValue(urlparse(u).query, <<"v">>)
            ELSE IF host \in {HostWww, HostBare}
                    /\ (StartsWith(path, PrefixEmbed) \/ StartsWith(path, PrefixV))
            THEN ThirdSegment(path)
            ELSE NoneVal

\* C10: each extract_video_id returns, for every input, the identifier stated by
\* host and path: the path without its leading "/" for youtu.be, the first v value
\* for /watch on www.youtube.com, youtube.com and m.youtube.com, the segment after
\* /embed/ or /v/ on www.youtube.com and youtube.com, and not-found otherwise.
C10_IdentifierByHostAndPath ==
    /\ ids.app # NotExtracted => ids.app = ClaimedIdentifier(url)
    /\ ids.script # NotExtracted => ids.script = ClaimedIdentifier(url)

----------------------------------------------------------------------------
(* One invocation of get_transcript_data, with the retrieval collaborator *)
(* (yt-dlp), the file system and the tokenizer as its environment.         *)

PipelineUrls ==
    {<<"h", "t", "t", "p", "s", ":", "/", "/", "y", "o", "u", "t", "u", ".", "b", "e", "/", "a", "b">>,
     <<"h", "t", "t", "p", "s", ":", "/", "/", "w", "w", "w", ".", "y", "o", "u", "t", "u", "b", "e", ".", "c", "o", "m", "/", "w", "a", "t", "c", "h", "?", "v", "=", "c", "d">>,
     <<"h", "t", "t", "p", "s", ":", "/", "/", "m", ".", "y", "o", "u", "t", "u", "b", "e", ".", "c", "o", "m", "/", "e", "m", "b", "e", "d", "/", "e", "f">>,
     <<"h", "t", "t", "p", "s", ":", "/", "/", "y", "o", "u", "t", "u", ".", "b", "e", "/">>,
     <<"n", "o", "t", " ", "a", " ", "u", "r", "l">>}

\* The caption files retrieval may stage.
PipelineMarkups ==
    {<<>>,
     Markup(<<HeaderLine, KindLine>>),
     Markup(<<HeaderLine, BlankLine, TimeRange1, TaggedText, BlankLine, TimeRange2, PlainText>>),
     Markup(<<TimeRange2, TagBlankText>>),
     Markup(<<TimeRange2, LabelText>>)}

Init ==
    /\ pc = "idle"
    /\ url = <<>>
    /\ video_id = NoneVal
    /\ files = NoFiles
    /\ staged = {}
    /\ subtitle_file_path = NoneVal
    /\ info_dict = NoInfo
    /\ exc = "none"
    /\ vtt_content = <<>>
    /\ tok = [kind |-> TokOk, breaks |-> {}]
    /\ result = NoResult
    /\ fmt = NoFmt
    /\ ids = NoIds
    /\ session_state = NoSession
    /\ notice = "none"

\* Lines 151-158: the identifier, and the early return when there is none.
Call(u) ==
    /\ pc = "idle"
    /\ url' = u
    /\ video_id' = extract_video_id(u)
    /\ IF ~Truthy(extract_video_id(u))
       THEN /\ result' = [error |-> ErrNoVideoId]
            /\ pc' = "done"
       ELSE /\ result' = NoResult
            /\ pc' = "retrieve"
    /\ subtitle_file_path' = NoneVal
    /\ UNCHANGED <<files, staged, info_dict, exc, vtt_content, tok, fmt, ids,
                   session_state, notice>>

\* What ydl.extract_info may leave on disk: each of the two candidate files written
\* or not.
Staging(fs, id, first, second) ==
    LET one == IF first = NoneVal THEN fs ELSE WriteFile(fs, PossiblePaths(id)[1], first)
    IN IF second = NoneVal THEN one ELSE WriteFile(one, PossiblePaths(id)[2], second)

StagedPaths(id, first, second) ==
    {PossiblePaths(id)[k] : k \in {n \in {1, 2} : <<first, second>>[n] # NoneVal}}

\* Line 163, ydl.extract_info: it stages files and returns info_dict.
RetrieveReturns(first, second) ==
    /\ pc = "retrieve"
    /\ files' = Staging(files, video_id, first, second)
    /\ staged' = StagedPaths(video_id, first, second)
    /\ \E auto \in BOOLEAN, subs \in BOOLEAN :
           info_dict' = [returned |-> TRUE, automatic_captions |-> auto, subtitles |-> subs]
    /\ pc' = "locate"
    /\ UNCHANGED <<url, video_id, subtitle_file_path, exc, vtt_content, tok, result, fmt, ids,
                   session_state, notice>>

\* Line 163, ydl.extract_info: it stages files and raises DownloadError or another
\* exception.
RetrieveRaises(first, second) ==
    /\ pc = "retrieve"
    /\ files' = Staging(files, video_id, first, second)
    /\ staged' = StagedPaths(video_id, first, second)
    /\ exc' \in DownloadErrors \cup {"unexpected"}
    /\ pc' = "except"
    /\ UNCHANGED <<url, video_id, subtitle_file_path, info_dict, vtt_content, tok, result,
                   fmt, ids,
                   session_state, notice>>

\* Lines 164-170: the caption file is looked for; without one the error is set and the
\* function returns through the finally clause.
Locate ==
    /\ pc = "locate"
    /\ subtitle_file_path' = LocatedPath(files, video_id)
    /\ IF LocatedPath(files, video_id) = NoneVal
       THEN /\ result' = [result EXCEPT !.error =
                              IF ~info_dict.automatic_captions /\ ~info_dict.subtitles
                              THEN ErrNoCaptionsAvailable
                              ELSE ErrFileNotCreated]
            /\ pc' = "finally"
       ELSE /\ result' = result
            /\ pc' = "process"
    /\ UNCHANGED <<url, video_id, files, staged, info_dict, exc, vtt_content, tok, fmt, ids,
                   session_state, notice>>

\* Lines 171-175: the file is read and rendered both ways; t is what the tokenizer
\* does in this invocation.
Process(t) ==
    /\ pc = "process"
    /\ vtt_content' = files[subtitle_file_path]
    /\ tok' = t
    /\ result' = Renderings(files[subtitle_file_path], t)
    /\ fmt' = FormatRun(files[subtitle_file_path], t)
    /\ pc' = "finally"
    /\ UNCHANGED <<url, video_id, files, staged, subtitle_file_path, info_dict, exc, ids,
                   session_state, notice>>

\* Line 172: reading the file raises (it is no UTF-8 text, say).
ReadRaises ==
    /\ pc = "process"
    /\ exc' = "unexpected"
    /\ pc' = "except"
    /\ UNCHANGED <<url, video_id, files, staged, subtitle_file_path, info_dict, vtt_content,
                   tok, result, fmt, ids,
                   session_state, notice>>

\* Lines 176-183: the except clauses.
Except ==
    /\ pc = "except"
    /\ result' = [result EXCEPT !.error =
                      IF exc \in DownloadErrors THEN DownloadErrorMessage(exc)
                      ELSE ErrUnexpected]
    /\ exc' = "none"
    /\ pc' = "finally"
    /\ UNCHANGED <<url, video_id, files, staged, subtitle_file_path, info_dict, vtt_content,
                   tok, fmt, ids,
                   session_state, notice>>

\* The files after the finally clause: the located file is removed when removed is
\* TRUE; os.remove raising OSError (removed FALSE) leaves it, with a warning.
AfterCleanup(fs, path, removed) ==
    IF path # NoneVal /\ path \in DOMAIN fs /\ removed THEN RemoveFile(fs, path) ELSE fs

\* Lines 184-188: the finally clause, and the return.
Finally(removed) ==
    /\ pc = "finally"
    /\ files' = AfterCleanup(files, subtitle_file_path, removed)
    /\ pc' = "done"
    /\ UNCHANGED <<url, video_id, staged, subtitle_file_path, info_dict, exc, vtt_content,
                   tok, result, fmt, ids,
                   session_state, notice>>

Next ==
    \/ \E u \in PipelineUrls : Call(u)
    \/ \E first \in PipelineMarkups \cup {NoneVal}, second \in PipelineMarkups \cup {NoneVal} :
           RetrieveReturns(first, second) \/ RetrieveRaises(first, second)
    \/ Locate
    \/ \E t \in RenderTokOutcomes : Process(t)
    \/ ReadRaises
    \/ Except
    \/ \E removed \in BOOLEAN : Finally(removed)

Spec == Init /\ [][Next]_vars

\* C1: after any invocation, whatever its outcome, no caption file staged by retrieval
\* for it remains: neither <id>_transcript_en.en.vtt nor <id>_transcript_en.vtt exists.
C1_NoStagedFileRemains ==
    pc = "done" =>
        /\ staged \cap DOMAIN files = {}
        /\ Truthy(video_id) =>
               \A k \in {1, 2} : PossiblePaths(video_id)[k] \notin DOMAIN files

\* A key of the returned dict, None when it has none (dict.get).
Get(r, key) ==
    IF key \in DOMAIN r THEN r[key] ELSE IF key = "error" THEN NoError ELSE NoneVal

\* C2: every returned result has both strings populated and no error, or has the
\* error populated: never no error with one or both strings empty.
C2_BothOrError ==
    pc = "done" =>
        \/ Get(result, "error") # NoError
        \/ Truthy(Get(result, "timestamped")) /\ Truthy(Get(result, "paragraph"))

\* C3: when the tokenizer fails during an invocation, the returned result has its
\* error populated: it is not a result with no error carrying a timestamped
\* rendering beside the failed paragraph rendering.
C3_TokenizerFailureIsError ==
    (pc = "done" /\ fmt.mode = "tokenizer_error") => Get(result, "error") # NoError

\* The invocation is at or past the point where retrieval has raised.
RetrievalRaised ==
    pc \in {"except", "finally", "done"} /\ Truthy(video_id) /\ ~info_dict.returned

\* The invocation is past the point where retrieval has returned with no captions
\* listed and no caption file staged.
RetrievalFoundNoCaptions ==
    /\ pc \in {"finally", "done"}
    /\ info_dict.returned /\ ~info_dict.automatic_captions /\ ~info_dict.subtitles
    /\ staged = {}

\* Neither renderer has run and both rendered strings are empty.
NothingRendered ==
    /\ fmt = NoFmt
    /\ vtt_content = <<>>
    /\ Get(result, "timestamped") = <<>>
    /\ Get(result, "paragraph") = <<>>

\* The error the orchestrator owes to each failure retrieval signals.
CorrespondingError(signal) ==
    CASE signal = "no_captions_found" -> ErrNoCaptionsFound
      [] signal = "video_unavailable" -> ErrVideoUnavailable
      [] signal = "unable_to_download" -> ErrNoMetadata
      [] signal = "other" -> ErrDownload
      [] signal = "unexpected" -> ErrUnexpected

----------------------------------------------------------------------------
(* The session: the "Get Transcript" button handler over st.session_state *)

PrefixError ==
    <<"E", "r", "r", "o", "r", ":">>

PrefixCouldNotExtract ==
    <<"C", "o", "u", "l", "d", " ", "n", "o", "t", " ", "e", "x", "t", "r", "a", "c", "t">>

UrlShort ==
    <<"h", "t", "t", "p", "s", ":", "/", "/", "y", "o", "u", "t", "u", ".", "b", "e", "/", "a",
      "b">>

UrlWatch ==
    <<"h", "t", "t", "p", "s", ":", "/", "/", "w", "w", "w", ".", "y", "o", "u", "t", "u", "b",
      "e", ".", "c", "o", "m", "/", "w", "a", "t", "c", "h", "?", "v", "=", "a", "b">>

UrlOther ==
    <<"h", "t", "t", "p", "s", ":", "/", "/", "y", "o", "u", "t", "u", ".", "b", "e", "/", "c",
      "d">>

UrlNone ==
    <<"n", "o", "t", " ", "a", " ", "u", "r", "l">>

\* What one call of get_transcript_data meets: what extract_info stages and whether
\* it raises (exc) or returns (auto, subs: the captions info_dict lists), whether the
\* read raises, what the tokenizer does, whether os.remove succeeds.
RetrievalOutcome(e, first, second, auto, subs, t, unreadable, removed) ==
    [exc |-> e, first |-> first, second |-> second, automatic_captions |-> auto,
     subtitles |-> subs, tok |-> t, read_raises |-> unreadable, removed |-> removed]

\* Lines 164-175 and 184-187: the caption file is looked for; without one the error
\* says why; with one it is read and rendered, and removed on the way out.
AfterRetrieval(written, path, o) ==
    IF path = NoneVal
    THEN [result |-> [NoResult EXCEPT !.error =
                          IF ~o.automatic_captions /\ ~o.subtitles
                          THEN ErrNoCaptionsAvailable
                          ELSE ErrFileNotCreated],
          files |-> written]
    ELSE [result |-> IF o.read_raises THEN [NoResult EXCEPT !.error = ErrUnexpected]
                     ELSE Renderings(written[path], o.tok),
          files |-> AfterCleanup(written, path, o.removed)]

\* Lines 160-163 and 176-183: extract_info has run and left the working directory
\* as written; when it raised, the except clauses set the error, and the finally
\* clause removes nothing, no file having been located.
Retrieval(id, written, o) ==
    IF o.exc # "none"
    THEN [result |-> [NoResult EXCEPT !.error =
                          IF o.exc \in DownloadErrors THEN DownloadErrorMessage(o.exc)
                          ELSE ErrUnexpected],
          files |-> written]
    ELSE AfterRetrieval(written, LocatedPath(written, id), o)

\* Lines 152-188, the identifier known: the early return without one, the retrieval
\* with one.
WithVideoId(id, fs, o) ==
    IF ~Truthy(id)
    THEN [result |-> [error |-> ErrNoVideoId], files |-> fs]
    ELSE Retrieval(id, Staging(fs, id, o.first, o.second), o)

\* get_transcript_data as a function of its argument, the working directory and what
\* it meets: the dict it returns and the working directory it leaves.
get_transcript_data(u, fs, o) == WithVideoId(extract_video_id(u), fs, o)

\* The WordCloud object of a text.
WordCloudObject == <<"WordCloud">>

\* Lines 190-210: None for an empty text or an error text, and when generation
\* raises (generated FALSE); the object otherwise.
generate_word_cloud(text, generated) ==
    IF ~Truthy(text) \/ StartsWith(text, PrefixError) \/ StartsWith(text, PrefixCouldNotExtract)
    THEN NoneVal
    ELSE IF generated THEN WordCloudObject ELSE NoneVal

\* Line 238, its second operand: the session holds a timestamped text, a paragraph
\* text or an error.
HoldsResult(s) ==
    \/ Truthy(Get(s.transcript_data, "timestamped"))
    \/ Truthy(Get(s.transcript_data, "paragraph"))
    \/ Get(s.transcript_data, "error") # NoError

\* The same test without the stored result: the URL alone decides.
UrlChanged(u, s) == u # s.last_url

\* Line 238: the test that sends a submission to get_transcript_data.
ShouldRetrieve(u, s) == u # s.last_url \/ ~HoldsResult(s)

\* Lines 240-243: the previous results are dropped, the URL and its identifier kept.
ClearedFor(u) ==
    [transcript_data |-> NoResult, word_cloud |-> NoneVal, last_url |-> u,
     video_id |-> extract_video_id(u)]

\* The URLs typed in a session; two of them name the same video.
SessionUrls == {<<>>, UrlShort, UrlWatch, UrlOther, UrlNone}

\* The caption files retrieval may stage in a session.
SessionMarkups == {Markup(<<TimeRange2, PlainText>>), Markup(<<HeaderLine>>)}

SessionTokOutcomes ==
    {[kind |-> TokOk, breaks |-> {}], [kind |-> TokResourceMissing, breaks |-> {}]}

\* What the calls of a session meet: extract_info raising, with or without a file
\* written before; returning without a file; returning with one that is read and
\* rendered, or that cannot be read.
SessionOutcomes ==
    {RetrievalOutcome(e, first, NoneVal, FALSE, FALSE, [kind |-> TokOk, breaks |-> {}],
                      FALSE, TRUE) :
         e \in DownloadErrors \cup {"unexpected"},
         first \in {NoneVal, Markup(<<TimeRange2, PlainText>>)}}
    \cup
    {RetrievalOutcome("none", NoneVal, NoneVal, auto, FALSE,
                      [kind |-> TokOk, breaks |-> {}], FALSE, TRUE) : auto \in BOOLEAN}
    \cup
    {RetrievalOutcome("none", first, NoneVal, TRUE, FALSE, t, FALSE, removed) :
         first \in SessionMarkups, t \in SessionTokOutcomes, removed \in BOOLEAN}
    \cup
    {RetrievalOutcome("none", Markup(<<HeaderLine>>), NoneVal, TRUE, FALSE,
                      [kind |-> TokOk, breaks |-> {}], TRUE, TRUE)}

SessionInit ==
    /\ pc = "ready"
    /\ Idle
    /\ vtt_content = <<>>
    /\ tok = [kind |-> TokOk, breaks |-> {}]
    /\ result = NoResult
    /\ fmt = NoFmt

\* Lines 236-243 and 249-256: the button is pressed with u in the text input. An
\* empty input clears the session; a submission that passes the test of line 238
\* clears the results, keeps the URL and goes on to get_transcript_data; any other
\* shows the stored results.
Submit(u) ==
    /\ pc = "ready"
    /\ url' = u
    /\ IF u = <<>>
       THEN /\ session_state' = NoSession
            /\ notice' = "warning"
            /\ pc' = "ready"
       ELSE IF ShouldRetrieve(u, session_state)
       THEN /\ session_state' = ClearedFor(u)
            /\ notice' = "none"
            /\ pc' = "calling"
       ELSE /\ session_state' = session_state
            /\ notice' = "info"
            /\ pc' = "ready"
    /\ UNCHANGED <<video_id, files, staged, subtitle_file_path, info_dict, exc, vtt_content,
                   tok, result, fmt, ids>>

\* Lines 246-248: the word cloud is generated from a paragraph text without an
\* error, and stays as it is otherwise.
WithWordCloud(s, generated) ==
    IF Get(s.transcript_data, "error") = NoError /\ Truthy(Get(s.transcript_data, "paragraph"))
    THEN [s EXCEPT !.word_cloud = generate_word_cloud(s.transcript_data.paragraph, generated)]
    ELSE s

\* Lines 244-245: the returned dict is stored.
WithResult(s, returned) == [s EXCEPT !.transcript_data = returned]

\* The session and the working directory after lines 244-248.
AfterCall(s, returned, generated) ==
    [session_state |-> WithWordCloud(WithResult(s, returned.result), generated),
     files |-> returned.files]

\* Lines 244-248: get_transcript_data returns, its result is stored, and the word
\* cloud is generated.
Retrieve(o, generated) ==
    /\ pc = "calling"
    /\ LET after == AfterCall(session_state, get_transcript_data(url, files, o), generated)
       IN /\ files' = after.files
          /\ session_state' = after.session_state
    /\ pc' = "ready"
    /\ UNCHANGED <<url, video_id, staged, subtitle_file_path, info_dict, exc, vtt_content,
                   tok, result, fmt, ids, notice>>

\* Line 162: the script run is stopped inside get_transcript_data (the user acts
\* again while the spinner shows; the stop is no Exception, so no except clause
\* takes it), and the session keeps the cleared results with the new URL.
Interrupt ==
    /\ pc = "calling"
    /\ pc' = "ready"
    /\ UNCHANGED <<url, video_id, files, staged, subtitle_file_path, info_dict, exc,
                   vtt_content, tok, result, fmt, ids, session_state, notice>>

SessionNext ==
    \/ \E u \in SessionUrls : Submit(u)
    \/ \E o \in SessionOutcomes, generated \in BOOLEAN : Retrieve(o, generated)
    \/ Interrupt

SessionSpec == SessionInit /\ [][SessionNext]_vars

\* The session holds a result: some transcript text, or an error.
ResultStored ==
    \/ Get(session_state.transcript_data, "error") # NoError
    \/ Get(session_state.transcript_data, "timestamped") \notin {NoneVal, <<>>}
    \/ Get(session_state.transcript_data, "paragraph") \notin {NoneVal, <<>>}

\* A submission of a non-empty URL is taking place in this step.
SubmitsUrl == pc = "ready" /\ url' # <<>>

\* C11: a submission with a non-empty URL goes to get_transcript_data exactly when
\* its URL differs from the last-seen URL or no result is stored; a submission that
\* repeats the last-seen URL while a result is stored leaves the stored result, the
\* last URL, the video id, the word cloud and the working directory as they are; a
\* submission that goes to retrieval has the stored result and word cloud discarded
\* before get_transcript_data runs.
C11_RetrievalOnlyWhenNeeded ==
    [][SubmitsUrl =>
           /\ (pc' = "calling") <=> (url' # session_state.last_url \/ ~ResultStored)
           /\ (url' = session_state.last_url /\ ResultStored) =>
                  session_state' = session_state /\ files' = files
           /\ (pc' = "calling") =>
                  /\ session_state'.transcript_data = NoResult
                  /\ session_state'.word_cloud = NoneVal
                  /\ session_state'.last_url = url']_vars

\* A stored URL was submitted again while its result, here an error, was stored, and
\* the stored results were shown.
C11_Witness ==
    /\ pc = "ready"
    /\ notice = "info"
    /\ url = session_state.last_url
    /\ Get(session_state.transcript_data, "error") # NoError

====
